---- MODULE Spec2Model ----
(***************************************************************************)
(* Model of the Store class of src/lib/taomu-store.tsx: the per-field      *)
(* publish/subscribe state container (dispatch pipeline, subscriber       *)
(* registry, batch counter and pending-options map).                       *)
(*                                                                         *)
(* Plain JavaScript objects (a partial state, a changed-set, the record    *)
(* returned by an action function or by beforeDispatch) are sequences of   *)
(* <<key, value>> pairs with distinct keys: the order is the insertion     *)
(* order of the own keys.  A Set of listeners is a duplicate-free sequence *)
(* in insertion order.                                                     *)
(***************************************************************************)
EXTENDS Integers, Sequences, FiniteSets, TLC

\* ---- bounds of the model ----
MaxVal == 1
MaxBatch == 2
NumListeners == 1
MaxHandles == 3
MaxCalls == 2

Fields == {"count", "name"}
Values == 0..MaxVal
Listeners == 1..NumListeners
Batches == 1..MaxBatch

VARIABLES
    state,                    \* Store.state: the current state object's content
    stateRef,                 \* identity of the object held by Store.state
    actions,                  \* Store.actions: field -> kind of action function
    listeners,                \* Store.listeners: Map<field, Set<Listener>>
    dispatchBatch,            \* Store.dispatchBatch
    dispatchBatchOptionsMap,  \* Store.dispatchBatchOptionsMap
    takeOverDispatch,         \* Store.takeOverDispatch
    beforeDispatch,           \* is Store.beforeDispatch registered
    afterDispatch,            \* is Store.afterDispatch registered
    unsubs,                   \* the unsubscribe closures returned so far
    held,                     \* a state object a caller of getState() keeps
    handles,                  \* the unsubscribe closures a subscriber keeps track of
    log,                      \* callbacks invoked by the last operation, in order
    last                      \* the last operation: its kind, inputs and result

vars == <<state, stateRef, actions, listeners, dispatchBatch,
          dispatchBatchOptionsMap, takeOverDispatch, beforeDispatch,
          afterDispatch, unsubs, held, handles, log, last>>

\* ---- plain objects as ordered key/value sequences ----
HasKey(o, k) == \E i \in 1..Len(o) : o[i][1] = k

ObjGet(o, k) == o[CHOOSE i \in 1..Len(o) : o[i][1] = k][2]

OwnKeys(o) == [i \in 1..Len(o) |-> o[i][1]]

KeySet(o) == {o[i][1] : i \in 1..Len(o)}

\* o[k] = v: an existing key keeps its position, a new key is appended
ObjSet(o, k, v) ==
    IF HasKey(o, k)
    THEN [i \in 1..Len(o) |-> IF o[i][1] = k THEN <<k, v>> ELSE o[i]]
    ELSE Append(o, <<k, v>>)

RECURSIVE ObjectAssign(_, _)
\* Object.assign(target, source)
ObjectAssign(target, source) ==
    IF source = <<>> THEN target
    ELSE ObjectAssign(ObjSet(target, Head(source)[1], Head(source)[2]), Tail(source))

\* { ...state, ...changedState }
Spread(st, changedState) ==
    [f \in Fields |-> IF HasKey(changedState, f) THEN ObjGet(changedState, f) ELSE st[f]]

\* the objects with at most two own keys
Objs ==
    {<<>>}
    \cup {<<<<k, v>>>> : k \in Fields, v \in Values}
    \cup {o \in {<<<<k1, v1>>, <<k2, v2>>>> :
                    k1 \in Fields, k2 \in Fields, v1 \in Values, v2 \in Values} :
            o[1][1] # o[2][1]}

\* ---- DispatchOptions ----
\* onChanged = 0 is "no callback"; onChanged = n > 0 is the callback given to
\* the n-th dispatch call (every call passes its own closure)
Options == [check : BOOLEAN, onChanged : 0..MaxBatch]

defaultDispatchOptions == [check |-> FALSE, onChanged |-> 0]

\* the second argument of dispatch: nothing, a bare callback or an options object
OptionArgs ==
    {[kind |-> "none", hasCheck |-> FALSE, check |-> FALSE, hasCb |-> FALSE]}
    \cup {[kind |-> "function", hasCheck |-> FALSE, check |-> FALSE, hasCb |-> TRUE]}
    \cup {[kind |-> "object", hasCheck |-> FALSE, check |-> FALSE, hasCb |-> cb] :
            cb \in BOOLEAN}
    \cup {[kind |-> "object", hasCheck |-> TRUE, check |-> c, hasCb |-> cb] :
            c \in BOOLEAN, cb \in BOOLEAN}

\* lines 110, 114-118: optionsH of a dispatch call whose own callback is cb
EffectiveOptions(options, cb) ==
    IF options.kind = "function"
    THEN [defaultDispatchOptions EXCEPT !.onChanged = cb]
    ELSE IF options.kind = "object"
    THEN [check |-> IF options.hasCheck THEN options.check
                    ELSE defaultDispatchOptions.check,
          onChanged |-> IF options.hasCb THEN cb
                        ELSE defaultDispatchOptions.onChanged]
    ELSE defaultDispatchOptions

\* ---- action functions (StoreActions) ----
OtherField(k) == CHOOSE f \in Fields : f # k

\* the value an action function derives for the other field from the incoming
\* value and the state it is given
Derived(v, st, k) == (v + st[OtherField(k)]) % (MaxVal + 1)

\* "none":   no action function for the field
\* "ripple": (v, s) => ({ [k]: v, [other]: derived(v, s) })
ActionKinds == {"none", "ripple"}

ApplyAction(kind, k, v, st) ==
    IF kind = "ripple"
    THEN <<<<k, v>>, <<OtherField(k), Derived(v, st, k)>>>>
    ELSE <<>>

\* ---- events of the log ----
\* the call of a callback (or the warning of line 184), with what the store holds
\* at that moment: st is this.state, ref the identity of that object, db is
\* this.dispatchBatch
Event(s, ev, key, n, arg) ==
    [ev |-> ev, key |-> key, n |-> n, arg |-> arg, st |-> s.state,
     ref |-> s.stateRef, db |-> s.dispatchBatch]

\* ---- Set<Listener> ----
\* mutant: a list instead of a Set, the same listener can be in it twice
SetAddAgain(s, l) == Append(s, l)

SetAdd(s, l) == IF \E i \in 1..Len(s) : s[i] = l THEN s ELSE Append(s, l)

SetDelete(s, l) == SelectSeq(s, LAMBDA x : x # l)

SetHas(s, l) == \E i \in 1..Len(s) : s[i] = l

\* this.listeners.get(key): <<>> stands for a missing entry as well as an empty set
ListenersGet(m, key) == IF key \in DOMAIN m THEN m[key] ELSE <<>>

\* ---- the store as a record, for the operators that run a whole call ----
Store ==
    [state |-> state, stateRef |-> stateRef, listeners |-> listeners,
     dispatchBatch |-> dispatchBatch,
     dispatchBatchOptionsMap |-> dispatchBatchOptionsMap, log |-> <<>>]

\* mutant: the entry is never deleted
MapDeleteNothing(m, n) == m

MapDelete(m, n) == [b \in DOMAIN m \ {n} |-> m[b]]

MapSet(m, n, v) == [b \in DOMAIN m \cup {n} |-> IF b = n THEN v ELSE m[b]]

\* lines 172-178: the listeners of one changed key, in the set's order
NotifyKey(s, key) ==
    LET ls == ListenersGet(s.listeners, key)
    IN  [i \in 1..Len(ls) |-> Event(s, "listener", key, ls[i], <<>>)]

\* mutant: the listeners of every field are invoked, changed or not
NotifyEveryKey(s, keys) == NotifyKey(s, "count") \o NotifyKey(s, "name")

RECURSIVE NotifyKeys(_, _)
\* lines 167-179: for (const realChangeKey in changedState)
NotifyKeys(s, keys) ==
    IF keys = <<>> THEN <<>>
    ELSE NotifyKey(s, Head(keys)) \o NotifyKeys(s, Tail(keys))

\* ---- state objects on the heap ----
\* held is <<>> or <<[ref, val]>>: the identity of a state object that a caller got
\* from getState() and kept, and what that object holds now.  An in-place write to
\* the object ref (line 196) is seen through every reference to it; the
\* replacement of line 143 leaves the old object as it is.
\* mutant: the write goes to a copy, the object itself is left as it was
HeldAfterWriteCopy(h, ref, val) == h

HeldAfterWrite(h, ref, val) ==
    IF h # <<>> /\ h[1].ref = ref THEN <<[ref |-> ref, val |-> val]>> ELSE h

\* mutant: the options are looked up under the store's latest batch number
ResolveOptionsLatest(s, batch, options) ==
    IF options # <<>> THEN options
    ELSE IF s.dispatchBatch \in DOMAIN s.dispatchBatchOptionsMap
         THEN <<s.dispatchBatchOptionsMap[s.dispatchBatch]>>
         ELSE <<>>

\* lines 160-165: the options of the pass; <<>> is undefined
ResolveOptions(s, batch, options) ==
    IF options # <<>> THEN options
    ELSE IF batch \in DOMAIN s.dispatchBatchOptionsMap
         THEN <<s.dispatchBatchOptionsMap[batch]>>
         ELSE <<>>

\* lines 181-185
OnChangedEvents(s, batch, optionsH) ==
    IF optionsH # <<>>
    THEN IF optionsH[1].onChanged # 0
         THEN <<Event(s, "onChanged", "", optionsH[1].onChanged, <<>>)>>
         ELSE <<>>
    ELSE <<Event(s, "warn", "", batch, <<>>)>>

\* line 187
AfterDispatchEvents(s, changedState) ==
    IF afterDispatch
    THEN <<Event(s, "afterDispatch", "", 0, changedState)>>
    ELSE <<>>

\* mutant: the pending entry is deleted whether or not options are passed
executeListenersAlwaysDelete(s, batch, changedState, options) ==
    LET optionsH == ResolveOptions(s, batch, options)
        s1 == [s EXCEPT !.dispatchBatchOptionsMap = MapDelete(@, batch)]
    IN  [s1 EXCEPT !.log = @ \o NotifyKeys(s1, OwnKeys(changedState))
                             \o OnChangedEvents(s1, batch, optionsH)
                             \o AfterDispatchEvents(s1, changedState)]

\* mutant: onChanged is called before the listeners
executeListenersCallbackFirst(s, batch, changedState, options) ==
    LET optionsH == ResolveOptions(s, batch, options)
        s1 == IF options = <<>>
              THEN [s EXCEPT !.dispatchBatchOptionsMap = MapDelete(@, batch)]
              ELSE s
    IN  [s1 EXCEPT !.log = @ \o OnChangedEvents(s1, batch, optionsH)
                             \o NotifyKeys(s1, OwnKeys(changedState))
                             \o AfterDispatchEvents(s1, changedState)]

\* mutant: a pass whose options cannot be resolved only warns and returns
executeListenersStrict(s, batch, changedState, options) ==
    LET optionsH == ResolveOptions(s, batch, options)
        s1 == IF options = <<>>
              THEN [s EXCEPT !.dispatchBatchOptionsMap = MapDelete(@, batch)]
              ELSE s
    IN  IF optionsH = <<>>
        THEN [s1 EXCEPT !.log = @ \o OnChangedEvents(s1, batch, optionsH)]
        ELSE [s1 EXCEPT !.log = @ \o NotifyKeys(s1, OwnKeys(changedState))
                                 \o OnChangedEvents(s1, batch, optionsH)
                                 \o AfterDispatchEvents(s1, changedState)]

\* lines 159-188: Store.executeListeners
executeListeners(s, batch, changedState, options) ==
    LET optionsH == ResolveOptions(s, batch, options)
        s1 == IF options = <<>>
              THEN [s EXCEPT !.dispatchBatchOptionsMap = MapDelete(@, batch)]
              ELSE s
    IN  [s1 EXCEPT !.log = @ \o NotifyKeys(s1, OwnKeys(changedState))
                             \o OnChangedEvents(s1, batch, optionsH)
                             \o AfterDispatchEvents(s1, changedState)]

\* the values beforeDispatch may return: a boolean or a partial state
HookResults ==
    {[kind |-> "boolean", bool |-> b, obj |-> <<>>] : b \in BOOLEAN}
    \cup {[kind |-> "object", bool |-> TRUE, obj |-> <<<<k, v>>>>] :
            k \in Fields, v \in Values}

\* mutant: the check option is ignored
ResolveKeyNoCheck(s, key, nextValue, optionsH, changedState) ==
    IF actions[key] # "none"
    THEN ObjectAssign(changedState, ApplyAction(actions[key], key, nextValue, s.state))
    ELSE ObjSet(changedState, key, nextValue)

\* mutant: the check comes first, also for a key that has an action function
ResolveKeyCheckFirst(s, key, nextValue, optionsH, changedState) ==
    IF optionsH.check /\ nextValue = s.state[key]
    THEN changedState
    ELSE IF actions[key] # "none"
    THEN ObjectAssign(changedState, ApplyAction(actions[key], key, nextValue, s.state))
    ELSE ObjSet(changedState, key, nextValue)

\* mutant: only the key's own entry of the action function's result is taken
ResolveKeyOwnOnly(s, key, nextValue, optionsH, changedState) ==
    IF actions[key] # "none"
    THEN LET ret == ApplyAction(actions[key], key, nextValue, s.state)
         IN  IF HasKey(ret, key) THEN ObjSet(changedState, key, ObjGet(ret, key))
             ELSE changedState
    ELSE IF optionsH.check
    THEN IF nextValue # s.state[key]
         THEN ObjSet(changedState, key, nextValue)
         ELSE changedState
    ELSE ObjSet(changedState, key, nextValue)

\* lines 129-140: what one key of changeKeys contributes to changedState
ResolveKey(s, key, nextValue, optionsH, changedState) ==
    IF actions[key] # "none"
    THEN ObjectAssign(changedState, ApplyAction(actions[key], key, nextValue, s.state))
    ELSE IF optionsH.check
    THEN IF nextValue # s.state[key]
         THEN ObjSet(changedState, key, nextValue)
         ELSE changedState
    ELSE ObjSet(changedState, key, nextValue)

\* line 132: the call of the action function, as an event
ActionEvents(s, key, nextValue) ==
    IF actions[key] # "none"
    THEN <<Event(s, "action", key, nextValue,
                 ApplyAction(actions[key], key, nextValue, s.state))>>
    ELSE <<>>

RECURSIVE ResolveKeysRunning(_, _, _, _, _)
\* mutant: each key is resolved against the state with the earlier keys' contributions
ResolveKeysRunning(s, changeKeys, nextState, optionsH, acc) ==
    IF changeKeys = <<>> THEN acc
    ELSE LET key == Head(changeKeys)
             nextValue == ObjGet(nextState, key)
             sNow == [s EXCEPT !.state = Spread(@, acc.changed)]
         IN  ResolveKeysRunning(s, Tail(changeKeys), nextState, optionsH,
                 [changed |-> ResolveKey(sNow, key, nextValue, optionsH, acc.changed),
                  events |-> acc.events \o ActionEvents(sNow, key, nextValue)])

RECURSIVE ResolveKeys(_, _, _, _, _)
\* lines 128-141: changeKeys.forEach
ResolveKeys(s, changeKeys, nextState, optionsH, acc) ==
    IF changeKeys = <<>> THEN acc
    ELSE LET key == Head(changeKeys)
             nextValue == ObjGet(nextState, key)
         IN  ResolveKeys(s, Tail(changeKeys), nextState, optionsH,
                 [changed |-> ResolveKey(s, key, nextValue, optionsH, acc.changed),
                  events |-> acc.events \o ActionEvents(s, key, nextValue)])

\* line 111: changeKeys is taken from nextState before beforeDispatch runs, so
\* the forEach of line 128 does not see the keys the hook's result adds
ChangeKeys(nextState, merged) == OwnKeys(nextState)

\* line 120: this.dispatchBatch++
NextBatch(n) == n + 1

\* mutant: the return of line 124 is missing
VetoedNever(res) == FALSE

\* line 124: if (res === false) return
Vetoed(res) == beforeDispatch /\ res.kind = "boolean" /\ ~res.bool

\* mutant: the object beforeDispatch returns is dropped
MergeHookDropped(nextState, res) == nextState

\* line 125: if (typeof res === 'object') Object.assign(nextState, res)
MergeHook(nextState, res) ==
    IF beforeDispatch /\ res.kind = "object"
    THEN ObjectAssign(nextState, res.obj)
    ELSE nextState

\* line 123: the call of beforeDispatch, as an event
BeforeDispatchEvents(s, nextState) ==
    IF beforeDispatch
    THEN <<Event(s, "beforeDispatch", "", s.dispatchBatch, nextState)>>
    ELSE <<>>

\* line 146: this.dispatchBatchOptionsMap.set(this.dispatchBatch, optionsH)
StoreOptions(s, optionsH) ==
    [s EXCEPT !.dispatchBatchOptionsMap = MapSet(@, s.dispatchBatch, optionsH)]

\* mutant: the changed-set is written into the current state object
ApplyChangedInPlace(s, changedState) ==
    [s EXCEPT !.state = Spread(@, changedState)]

\* line 143: this.state = { ...this.state, ...changedState }
ApplyChanged(s, changedState) ==
    [s EXCEPT !.state = Spread(@, changedState), !.stateRef = @ + 1]

\* lines 143-149: apply the changed-set and route the notification
ApplyAndRoute(s, changedState, optionsH) ==
    LET s1 == ApplyChanged(s, changedState)
    IN  IF takeOverDispatch
        THEN StoreOptions(s1, optionsH)
        ELSE executeListeners(s1, s1.dispatchBatch, changedState, <<optionsH>>)

\* mutant: the batch counter is incremented after the hook, so a vetoed dispatch
\* does not increment it and the hook sees the previous number
dispatchLateIncrement(s, nextState, options, res) ==
    LET optionsH == EffectiveOptions(options, s.dispatchBatch + 1)
        s0 == [s EXCEPT !.log = @ \o BeforeDispatchEvents(s, nextState)]
        s1 == [s0 EXCEPT !.dispatchBatch = NextBatch(@)]
        merged == MergeHook(nextState, res)
        r == ResolveKeys(s1, ChangeKeys(nextState, merged), merged, optionsH,
                         [changed |-> <<>>, events |-> <<>>])
        s2 == [s1 EXCEPT !.log = @ \o r.events]
    IN  IF Vetoed(res)
        THEN [s |-> s0, vetoed |-> TRUE, changed |-> <<>>, optionsH |-> optionsH]
        ELSE [s |-> ApplyAndRoute(s2, r.changed, optionsH), vetoed |-> FALSE,
              changed |-> r.changed, optionsH |-> optionsH]

\* lines 109-150: Store.dispatch; res is what beforeDispatch returns when registered
dispatch(s, nextState, options, res) ==
    LET optionsH == EffectiveOptions(options, s.dispatchBatch + 1)
        s0 == [s EXCEPT !.dispatchBatch = NextBatch(@)]
        s1 == [s0 EXCEPT !.log = @ \o BeforeDispatchEvents(s0, nextState)]
        merged == MergeHook(nextState, res)
        r == ResolveKeys(s1, ChangeKeys(nextState, merged), merged, optionsH,
                         [changed |-> <<>>, events |-> <<>>])
        s2 == [s1 EXCEPT !.log = @ \o r.events]
    IN  IF Vetoed(res)
        THEN [s |-> s1, vetoed |-> TRUE, changed |-> <<>>, optionsH |-> optionsH]
        ELSE [s |-> ApplyAndRoute(s2, r.changed, optionsH), vetoed |-> FALSE,
              changed |-> r.changed, optionsH |-> optionsH]

\* ---- callbacks that call dispatch on the same store ----
\* a nested call is <<>> (the callback does not dispatch) or <<c>> with the
\* arguments c.nextState and c.options of the dispatch the callback makes and what
\* beforeDispatch returns to it, c.res; a nested call nests no further
RECURSIVE dispatchNested(_, _, _, _, _, _)
RECURSIVE executeListenersNested(_, _, _, _, _)

\* mutant: onChanged gets the state the pass started with
executeListenersNestedEarly(s, batch, changedState, options, inner) ==
    LET optionsH == ResolveOptions(s, batch, options)
        s1 == IF options = <<>>
              THEN [s EXCEPT !.dispatchBatchOptionsMap = MapDelete(@, batch)]
              ELSE s
        first == NotifyKeys(s1, OwnKeys(changedState))
    IN  IF inner = <<>> \/ first = <<>>
        THEN executeListeners(s, batch, changedState, options)
        ELSE LET s2 == [s1 EXCEPT !.log = @ \o <<Head(first)>>]
                 s3 == dispatchNested(s2, inner[1].nextState, inner[1].options,
                                      inner[1].res, <<>>, <<>>).s
             IN  [s3 EXCEPT !.log = @ \o Tail(NotifyKeys(s3, OwnKeys(changedState)))
                                      \o OnChangedEvents(s1, batch, optionsH)
                                      \o AfterDispatchEvents(s3, changedState)]

\* lines 159-188: executeListeners when the listener that is invoked first calls
\* dispatch(inner) (on this invocation only): the rest of the pass, from line 174
\* on, runs on the store as the nested call left it
executeListenersNested(s, batch, changedState, options, inner) ==
    LET optionsH == ResolveOptions(s, batch, options)
        s1 == IF options = <<>>
              THEN [s EXCEPT !.dispatchBatchOptionsMap = MapDelete(@, batch)]
              ELSE s
        first == NotifyKeys(s1, OwnKeys(changedState))
    IN  IF inner = <<>> \/ first = <<>>
        THEN executeListeners(s, batch, changedState, options)
        ELSE LET s2 == [s1 EXCEPT !.log = @ \o <<Head(first)>>]
                 s3 == dispatchNested(s2, inner[1].nextState, inner[1].options,
                                      inner[1].res, <<>>, <<>>).s
             IN  [s3 EXCEPT !.log = @ \o Tail(NotifyKeys(s3, OwnKeys(changedState)))
                                      \o OnChangedEvents(s3, batch, optionsH)
                                      \o AfterDispatchEvents(s3, changedState)]

\* lines 145-149 as an event: n is the batch number line 120 gave the call, db the
\* value of this.dispatchBatch that the routing reads
RouteEvents(s, allocated) == <<Event(s, "route", "", allocated, <<>>)>>

\* lines 109-150: Store.dispatch when beforeDispatch calls dispatch(hookInner)
\* before it returns res, and when the listener invoked first calls
\* dispatch(listenerInner); lines 128-149 run on the store as the hook left it
dispatchNested(s, nextState, options, res, hookInner, listenerInner) ==
    LET optionsH == EffectiveOptions(options, s.dispatchBatch + 1)
        s0 == [s EXCEPT !.dispatchBatch = NextBatch(@)]
        s1 == [s0 EXCEPT !.log = @ \o BeforeDispatchEvents(s0, nextState)]
        sH == IF beforeDispatch /\ hookInner # <<>>
              THEN dispatchNested(s1, hookInner[1].nextState, hookInner[1].options,
                                  hookInner[1].res, <<>>, <<>>).s
              ELSE s1
        merged == MergeHook(nextState, res)
        r == ResolveKeys(sH, ChangeKeys(nextState, merged), merged, optionsH,
                         [changed |-> <<>>, events |-> <<>>])
        s2 == [sH EXCEPT !.log = @ \o r.events \o RouteEvents(sH, s0.dispatchBatch)]
        s3 == ApplyChanged(s2, r.changed)
    IN  IF Vetoed(res)
        THEN [s |-> sH, vetoed |-> TRUE, changed |-> <<>>, optionsH |-> optionsH,
              batch |-> s0.dispatchBatch]
        ELSE [s |-> IF takeOverDispatch
                    THEN StoreOptions(s3, optionsH)
                    ELSE executeListenersNested(s3, s3.dispatchBatch, r.changed,
                                                <<optionsH>>, listenerInner),
              vetoed |-> FALSE, changed |-> r.changed, optionsH |-> optionsH,
              batch |-> s0.dispatchBatch]

\* ---- the record of the last operation ----
NoOptions == defaultDispatchOptions

NoInner == [hook |-> <<>>, listener |-> <<>>]

\* op is "idle" between two calls; a call sets it, and Return clears it again
\* hook is what beforeDispatch returned to a dispatch: "none" when no hook is
\* registered, else "true", "false" or "object" (hookObj); pre is the store as
\* the call found it, held the kept state object as the call found it, handle the
\* closure an unsubscribe call went through (0 when it is not tracked), inner the
\* dispatch calls that beforeDispatch and a listener of the call made
Last(op, batch, nextState, changed, vetoed, optionsH, explicit, hook, hookObj) ==
    [op |-> op, batch |-> batch, nextState |-> nextState, changed |-> changed,
     vetoed |-> vetoed, takeOver |-> takeOverDispatch, optionsH |-> optionsH,
     explicit |-> explicit, hook |-> hook, hookObj |-> hookObj, pre |-> Store,
     held |-> held, handle |-> 0, inner |-> NoInner]

Simple(op) == Last(op, 0, <<>>, <<>>, FALSE, NoOptions, FALSE, "none", <<>>)

HookKind(res) ==
    IF ~beforeDispatch THEN "none"
    ELSE IF res.kind = "object" THEN "object"
    ELSE IF res.bool THEN "true" ELSE "false"

Idle == last.op = "idle"

\* the action functions the store is constructed with: one for count, none for name
ActionConfig == [f \in Fields |-> IF f = "count" THEN "ripple" ELSE "none"]

\* ---- initial state: new Store(state, actions) ----
Init ==
    /\ state = [f \in Fields |-> 0]
    /\ stateRef = 0
    /\ actions = ActionConfig
    /\ listeners = <<>>
    /\ dispatchBatch = 0
    /\ dispatchBatchOptionsMap = <<>>
    /\ takeOverDispatch = FALSE
    /\ beforeDispatch = FALSE
    /\ afterDispatch = FALSE
    /\ unsubs = {}
    /\ held = <<>>
    /\ handles = <<>>
    /\ log = <<>>
    /\ last = Simple("idle")

\* ---- operations ----
\* lines 81-87: subscribe(listener, key), which returns an unsubscribe closure
Subscribe(listener, key) ==
    /\ Idle
    /\ listeners' = [k \in DOMAIN listeners \cup {key} |->
                        IF k = key THEN SetAdd(ListenersGet(listeners, key), listener)
                        ELSE listeners[k]]
    /\ unsubs' = unsubs \cup {<<key, listener>>}
    /\ log' = <<>>
    /\ last' = Simple("subscribe")
    /\ UNCHANGED <<state, stateRef, actions, dispatchBatch, dispatchBatchOptionsMap,
                   takeOverDispatch, beforeDispatch, afterDispatch, held, handles>>

\* line 86: a call of a closure returned by subscribe: listeners.delete(listener)
Unsubscribe(key, listener) ==
    /\ Idle
    /\ <<key, listener>> \in unsubs
    /\ listeners' = [listeners EXCEPT ![key] = SetDelete(@, listener)]
    /\ log' = <<>>
    /\ last' = Simple("unsubscribe")
    /\ UNCHANGED <<state, stateRef, actions, dispatchBatch, dispatchBatchOptionsMap,
                   takeOverDispatch, beforeDispatch, afterDispatch, unsubs, held, handles>>

\* lines 94-102: getState
GetState ==
    /\ Idle
    /\ log' = <<>>
    /\ last' = Simple("getState")
    /\ UNCHANGED <<state, stateRef, actions, listeners, dispatchBatch,
                   dispatchBatchOptionsMap, takeOverDispatch, beforeDispatch,
                   afterDispatch, unsubs, held, handles>>

\* lines 81-87: subscribe(listener, key) by a subscriber that keeps the returned
\* closure; handles[i] is the i-th closure, with the number of times it was called
SubscribeHandle(listener, key) ==
    /\ Idle
    /\ Len(handles) < MaxHandles
    /\ listeners' = [k \in DOMAIN listeners \cup {key} |->
                        IF k = key THEN SetAdd(ListenersGet(listeners, key), listener)
                        ELSE listeners[k]]
    /\ unsubs' = unsubs \cup {<<key, listener>>}
    /\ handles' = Append(handles, [key |-> key, l |-> listener, calls |-> 0])
    /\ log' = <<>>
    /\ last' = Simple("subscribe")
    /\ UNCHANGED <<state, stateRef, actions, dispatchBatch, dispatchBatchOptionsMap,
                   takeOverDispatch, beforeDispatch, afterDispatch, held>>

\* line 86: a call of the i-th kept closure: listeners.delete(listener) on the Set
\* the closure captured, which is the Set the registry holds for the key
CallHandle(i) ==
    /\ Idle
    /\ handles[i].calls < MaxCalls
    /\ listeners' = [listeners EXCEPT ![handles[i].key] = SetDelete(@, handles[i].l)]
    /\ handles' = [handles EXCEPT ![i].calls = @ + 1]
    /\ log' = <<>>
    /\ last' = [Simple("unsubscribe") EXCEPT !.handle = i]
    /\ UNCHANGED <<state, stateRef, actions, dispatchBatch, dispatchBatchOptionsMap,
                   takeOverDispatch, beforeDispatch, afterDispatch, unsubs, held>>

\* the number of dispatch calls a nested call adds
Calls(inner) == IF inner = <<>> THEN 0 ELSE 1

\* lines 109-150: dispatch(nextState, options) with callbacks that dispatch
DispatchNested(nextState, options, res, hookInner, listenerInner) ==
    /\ Idle
    /\ hookInner # <<>> => beforeDispatch
    /\ dispatchBatch + 1 + Calls(hookInner) + Calls(listenerInner) <= MaxBatch
    /\ LET r == dispatchNested(Store, nextState, options, res, hookInner, listenerInner)
       IN  /\ state' = r.s.state
           /\ stateRef' = r.s.stateRef
           /\ dispatchBatch' = r.s.dispatchBatch
           /\ dispatchBatchOptionsMap' = r.s.dispatchBatchOptionsMap
           /\ log' = r.s.log
           /\ last' = [Last("dispatch", r.batch, nextState, r.changed, r.vetoed,
                            r.optionsH, FALSE, HookKind(res), res.obj)
                          EXCEPT !.inner = [hook |-> hookInner,
                                            listener |-> listenerInner]]
    /\ UNCHANGED <<actions, listeners, takeOverDispatch, beforeDispatch,
                   afterDispatch, unsubs, held, handles>>

\* lines 159-188: the owner's call of executeListeners with a listener that dispatches
ExecuteListenersNested(batch, changedState, options, inner) ==
    /\ Idle
    /\ dispatchBatch + Calls(inner) <= MaxBatch
    /\ LET s == executeListenersNested(Store, batch, changedState, options, inner)
       IN  /\ state' = s.state
           /\ stateRef' = s.stateRef
           /\ dispatchBatch' = s.dispatchBatch
           /\ dispatchBatchOptionsMap' = s.dispatchBatchOptionsMap
           /\ log' = s.log
           /\ last' = [Last("executeListeners", batch, <<>>, changedState, FALSE,
                            IF options = <<>> THEN NoOptions ELSE options[1],
                            options # <<>>, "none", <<>>)
                          EXCEPT !.inner = [hook |-> <<>>, listener |-> inner]]
    /\ UNCHANGED <<actions, listeners, takeOverDispatch, beforeDispatch,
                   afterDispatch, unsubs, held, handles>>

\* line 100: const snapshot = store.getState(), a reference the caller keeps
HoldState ==
    /\ Idle
    /\ held' = <<[ref |-> stateRef, val |-> state]>>
    /\ log' = <<>>
    /\ last' = Simple("getState")
    /\ UNCHANGED <<state, stateRef, actions, listeners, dispatchBatch,
                   dispatchBatchOptionsMap, takeOverDispatch, beforeDispatch,
                   afterDispatch, unsubs, handles>>

\* lines 109-150: dispatch(nextState, options)
Dispatch(nextState, options, res) ==
    /\ Idle
    /\ dispatchBatch < MaxBatch
    /\ LET r == dispatch(Store, nextState, options, res)
       IN  /\ state' = r.s.state
           /\ stateRef' = r.s.stateRef
           /\ dispatchBatch' = r.s.dispatchBatch
           /\ dispatchBatchOptionsMap' = r.s.dispatchBatchOptionsMap
           /\ log' = r.s.log
           /\ last' = Last("dispatch", r.s.dispatchBatch, nextState, r.changed,
                           r.vetoed, r.optionsH, FALSE, HookKind(res), res.obj)
    /\ UNCHANGED <<actions, listeners, takeOverDispatch, beforeDispatch,
                   afterDispatch, unsubs, held, handles>>

\* lines 159-188: a call of executeListeners by the owner
ExecuteListeners(batch, changedState, options) ==
    /\ Idle
    /\ LET s == executeListeners(Store, batch, changedState, options)
       IN  /\ dispatchBatchOptionsMap' = s.dispatchBatchOptionsMap
           /\ log' = s.log
           /\ last' = Last("executeListeners", batch, <<>>, changedState, FALSE,
                           IF options = <<>> THEN NoOptions ELSE options[1],
                           options # <<>>, "none", <<>>)
    /\ UNCHANGED <<state, stateRef, actions, listeners, dispatchBatch,
                   takeOverDispatch, beforeDispatch, afterDispatch, unsubs, held, handles>>

\* lines 195-197: staticUpdateState(nextState)
StaticUpdateState(nextState) ==
    /\ Idle
    /\ state' = Spread(state, nextState)
    /\ held' = HeldAfterWrite(held, stateRef, state')
    /\ log' = <<>>
    /\ last' = [Simple("staticUpdateState") EXCEPT !.nextState = nextState]
    /\ UNCHANGED <<stateRef, actions, listeners, dispatchBatch, dispatchBatchOptionsMap,
                   takeOverDispatch, beforeDispatch, afterDispatch, unsubs, handles>>

\* line 56: the owner sets the public field takeOverDispatch
SetTakeOverDispatch(b) ==
    /\ Idle
    /\ takeOverDispatch # b
    /\ takeOverDispatch' = b
    /\ log' = <<>>
    /\ last' = [Simple("setTakeOverDispatch") EXCEPT !.takeOver = b]
    /\ UNCHANGED <<state, stateRef, actions, listeners, dispatchBatch,
                   dispatchBatchOptionsMap, beforeDispatch, afterDispatch, unsubs, held, handles>>

\* lines 67-78: the owner registers (or removes) the two hooks beforeDispatch and
\* afterDispatch; an owner that bridges dispatches installs them together
SetHooks(b) ==
    /\ Idle
    /\ beforeDispatch # b \/ afterDispatch # b
    /\ beforeDispatch' = b
    /\ afterDispatch' = b
    /\ log' = <<>>
    /\ last' = Simple("setHooks")
    /\ UNCHANGED <<state, stateRef, actions, listeners, dispatchBatch,
                   dispatchBatchOptionsMap, takeOverDispatch, unsubs, held, handles>>

\* the call returns to its caller: the record of the call is closed
Return ==
    /\ ~Idle
    /\ log' = <<>>
    /\ last' = Simple("idle")
    /\ UNCHANGED <<state, stateRef, actions, listeners, dispatchBatch,
                   dispatchBatchOptionsMap, takeOverDispatch, beforeDispatch,
                   afterDispatch, unsubs, held, handles>>

\* what beforeDispatch returns: nothing to choose when it is not registered
HookChoices == IF beforeDispatch THEN HookResults
               ELSE {[kind |-> "boolean", bool |-> TRUE, obj |-> <<>>]}

\* the changed-sets an owner passes to executeListeners
NotifyObjs == {o \in Objs : \A i \in 1..Len(o) : o[i][2] = MaxVal}

\* the options argument of an owner's executeListeners call: <<>> is "omitted"
NotifyOptionArgs ==
    {<<>>} \cup {<<[check |-> FALSE, onChanged |-> c]>> : c \in 0..MaxBatch}

Next ==
    \/ \E l \in Listeners, k \in Fields : Subscribe(l, k)
    \/ \E l \in Listeners, k \in Fields : Unsubscribe(k, l)
    \/ GetState
    \/ \E o \in Objs, a \in OptionArgs, res \in HookChoices : Dispatch(o, a, res)
    \/ \E b \in Batches, o \in NotifyObjs, a \in NotifyOptionArgs :
            ExecuteListeners(b, o, a)
    \/ \E o \in Objs : StaticUpdateState(o)
    \/ \E b \in BOOLEAN : SetTakeOverDispatch(b)
    \/ \E b \in BOOLEAN : SetHooks(b)
    \/ Return

Spec == Init /\ [][Next]_vars

\* ---- callers that keep the object getState() returns ----
\* the second argument of the dispatches of these callers
SnapshotOptionArgs == {a \in OptionArgs : a.kind = "object" /\ a.hasCheck /\ ~a.hasCb}

NextSnapshot ==
    \/ HoldState
    \/ \E l \in Listeners, k \in Fields : Subscribe(l, k)
    \/ \E o \in Objs, a \in SnapshotOptionArgs, res \in HookChoices : Dispatch(o, a, res)
    \/ \E o \in Objs : StaticUpdateState(o)
    \/ \E b \in BOOLEAN : SetTakeOverDispatch(b)
    \/ \E b \in BOOLEAN : SetHooks(b)
    \/ Return

SpecSnapshot == Init /\ [][NextSnapshot]_vars

\* ---- subscribers that keep the closures subscribe() returns ----
PlainOptionArgs == {a \in OptionArgs : a.kind = "none"}

NextHandles ==
    \/ \E l \in Listeners, k \in Fields : SubscribeHandle(l, k)
    \/ \E i \in DOMAIN handles : CallHandle(i)
    \/ \E o \in Objs, a \in PlainOptionArgs, res \in HookChoices : Dispatch(o, a, res)
    \/ Return

SpecHandles == Init /\ [][NextHandles]_vars

\* ---- callbacks that dispatch ----
\* the dispatch a callback makes: one field, with a callback of its own
InnerCalls ==
    {<<>>}
    \cup {<<[nextState |-> <<<<k, MaxVal>>>>,
            options |-> [kind |-> "function", hasCheck |-> FALSE, check |-> FALSE,
                         hasCb |-> TRUE],
            res |-> [kind |-> "boolean", bool |-> b, obj |-> <<>>]]>> :
            k \in Fields, b \in BOOLEAN}

\* the arguments of the outer calls
OuterObjs == {o \in Objs : Len(o) = 1}

OuterOptionArgs == {a \in OptionArgs : a.kind # "object"}

OuterHookResults == {r \in HookChoices : r.kind = "boolean"}

NextReentrant ==
    \/ \E l \in Listeners, k \in Fields : Subscribe(l, k)
    \/ HoldState
    \/ \E o \in OuterObjs, a \in OuterOptionArgs, res \in OuterHookResults,
          hi \in InnerCalls, li \in InnerCalls : DispatchNested(o, a, res, hi, li)
    \/ \E b \in Batches, o \in NotifyObjs, a \in NotifyOptionArgs, li \in InnerCalls :
          ExecuteListenersNested(b, o, a, li)
    \/ \E b \in BOOLEAN : SetTakeOverDispatch(b)
    \/ \E b \in BOOLEAN : SetHooks(b)
    \/ Return

SpecReentrant == Init /\ [][NextReentrant]_vars

\* ---- stores constructed with any assignment of action functions ----
InitActions ==
    /\ state = [f \in Fields |-> 0]
    /\ stateRef = 0
    /\ actions \in [Fields -> ActionKinds]
    /\ listeners = <<>>
    /\ dispatchBatch = 0
    /\ dispatchBatchOptionsMap = <<>>
    /\ takeOverDispatch = FALSE
    /\ beforeDispatch = FALSE
    /\ afterDispatch = FALSE
    /\ unsubs = {}
    /\ held = <<>>
    /\ handles = <<>>
    /\ log = <<>>
    /\ last = Simple("idle")

CheckOptionArgs == {a \in OptionArgs : a.kind = "object" /\ ~a.hasCb}

NextActions ==
    \/ \E o \in Objs, a \in CheckOptionArgs, res \in HookChoices : Dispatch(o, a, res)
    \/ \E b \in BOOLEAN : SetHooks(b)
    \/ Return

SpecActions == InitActions /\ [][NextActions]_vars

\* ---- observations on the record of the last call ----
\* how often listener l was invoked as a listener of field key
InvokedCount(key, l) ==
    Cardinality({i \in 1..Len(log) :
        log[i].ev = "listener" /\ log[i].key = key /\ log[i].n = l})

EventsOf(ev) == {i \in 1..Len(log) : log[i].ev = ev}

NotifyEvents == EventsOf("listener") \cup EventsOf("onChanged") \cup EventsOf("afterDispatch")

Registered(key, l) == SetHas(ListenersGet(listeners, key), l)

DispatchDone == last.op = "dispatch" /\ ~last.vetoed

NormalDispatch == DispatchDone /\ ~last.takeOver

HandOffDispatch == DispatchDone /\ last.takeOver

OptionLessNotify == last.op = "executeListeners" /\ ~last.explicit

\* the pending-options map as the last call found it
PreMap == last.pre.dispatchBatchOptionsMap

\* the value of key X that reaches the per-field resolution of the last dispatch:
\* the one beforeDispatch returned for X, else the one passed to dispatch
IncomingValue(X) ==
    IF HasKey(last.hookObj, X) THEN ObjGet(last.hookObj, X)
    ELSE ObjGet(last.nextState, X)

\* the last dispatch passed no key that has an action function
NoActionKeys == \A k \in KeySet(last.nextState) : actions[k] = "none"

\* what the action function of key X returned to the last dispatch
Returned(X) == ApplyAction(actions[X], X, IncomingValue(X), last.pre.state)

\* C1: in a dispatch that is not vetoed and runs with takeOverDispatch false, a
\* listener registered on field K is invoked (as a listener of K) iff K is an own
\* key of the changed-set, and a listener registered only on fields outside the
\* changed-set is not invoked at all.
C1_SelectiveNotification ==
    NormalDispatch =>
        /\ \A K \in Fields, l \in Listeners :
              Registered(K, l) => (InvokedCount(K, l) >= 1 <=> HasKey(last.changed, K))
        /\ \A l \in Listeners :
              (\A K \in Fields : Registered(K, l) => ~HasKey(last.changed, K))
                  => \A i \in EventsOf("listener") : log[i].n # l

C1_Witness ==
    /\ NormalDispatch
    /\ \E l \in Listeners :
          /\ Registered("count", l) /\ Registered("name", l)
          /\ KeySet(last.changed) = {"name"}
          /\ InvokedCount("name", l) = 1
          /\ InvokedCount("count", l) = 0

\* C2: a non-vetoed dispatch made while takeOverDispatch is true applies the
\* changed-set to the state and invokes no listener, no onChanged and no
\* afterDispatch; these run only in a normal dispatch or in an owner's call of
\* executeListeners, and an option-less executeListeners call for a batch whose
\* options are pending invokes exactly the onChanged recorded for that batch, which
\* is the callback of the dispatch that was given that batch number.
C2_HandOffCorrelation ==
    /\ HandOffDispatch =>
          /\ NotifyEvents = {}
          /\ state = Spread(last.pre.state, last.changed)
    /\ NotifyEvents # {} => (NormalDispatch \/ last.op = "executeListeners")
    /\ OptionLessNotify =>
          IF last.batch \in DOMAIN PreMap /\ PreMap[last.batch].onChanged # 0
          THEN /\ Cardinality(EventsOf("onChanged")) = 1
               /\ \A i \in EventsOf("onChanged") : log[i].n = last.batch
          ELSE EventsOf("onChanged") = {}

C2_Witness ==
    /\ OptionLessNotify
    /\ \E i \in EventsOf("onChanged") : log[i].n = last.batch
    /\ EventsOf("listener") # {}
    /\ \E m \in DOMAIN dispatchBatchOptionsMap :
          m # last.batch /\ dispatchBatchOptionsMap[m].onChanged = m

\* C3: a dispatch whose beforeDispatch hook returns false leaves the state (value
\* and object), the subscriber registry and the pending-options map unchanged,
\* calls nothing but the hook itself (no action function, listener, onChanged or
\* afterDispatch), in hand-off and in normal mode, and still increments the batch
\* counter by exactly one.
C3_Veto ==
    (last.op = "dispatch" /\ last.hook = "false") =>
        /\ state = last.pre.state
        /\ stateRef = last.pre.stateRef
        /\ listeners = last.pre.listeners
        /\ dispatchBatchOptionsMap = PreMap
        /\ dispatchBatch = last.pre.dispatchBatch + 1
        /\ \A i \in 1..Len(log) : log[i].ev = "beforeDispatch"

C3_Witness ==
    /\ last.op = "dispatch" /\ last.hook = "false"
    /\ ~last.takeOver
    /\ afterDispatch
    /\ DOMAIN dispatchBatchOptionsMap # {}
    /\ \E K \in KeySet(last.nextState), l \in Listeners :
          Registered(K, l) /\ last.nextState # <<<<K, state[K]>>>>

\* C4 (as stated): when beforeDispatch returns an object {Y: v} whose key Y is not a
\* key of the partial state passed to dispatch, Y is in the changed-set, the state
\* holds the changed-set's value for Y after the dispatch, and in normal mode the
\* listeners of Y are notified.
C4_HookAugmentation ==
    (last.op = "dispatch" /\ last.hook = "object") =>
        \A Y \in KeySet(last.hookObj) \ KeySet(last.nextState) :
            /\ HasKey(last.changed, Y)
            /\ state[Y] = ObjGet(last.changed, Y)
            /\ ~last.takeOver =>
                  \A l \in Listeners : Registered(Y, l) => InvokedCount(Y, l) >= 1

\* C5: for a field X without action function (in a dispatch none of whose keys has
\* one): with check = true, an incoming value equal to the current value of X puts
\* no entry for X in the changed-set and invokes no listener of X, and a different
\* value puts X -> value in the changed-set and invokes each listener of X exactly
\* once; with check = false, X -> value is in the changed-set even when unchanged.
C5_CheckSemantics ==
    (DispatchDone /\ NoActionKeys) =>
        \A X \in KeySet(last.nextState) :
            IF last.optionsH.check /\ IncomingValue(X) = last.pre.state[X]
            THEN /\ ~HasKey(last.changed, X)
                 /\ \A l \in Listeners : InvokedCount(X, l) = 0
            ELSE /\ HasKey(last.changed, X)
                 /\ ObjGet(last.changed, X) = IncomingValue(X)
                 /\ state[X] = IncomingValue(X)
                 /\ NormalDispatch =>
                       \A l \in Listeners : Registered(X, l) => InvokedCount(X, l) = 1

C5_Witness ==
    /\ NormalDispatch
    /\ last.optionsH.check
    /\ last.hook = "none"
    /\ \E v \in Values :
          /\ last.nextState = <<<<"name", v>>>>
          /\ last.pre.state["name"] = v
    /\ last.changed = <<>>
    /\ \E l \in Listeners : Registered("name", l)
    /\ EventsOf("listener") = {}

\* C6: a key X of the dispatch that has an action function contributes what the
\* action function returns for (incoming value, state before the dispatch),
\* whatever the check option is and also when the returned value of X equals the
\* current one: every returned key is in the changed-set, X has the returned value
\* there, and in normal mode the listeners of every returned key are notified.
C6_TransformPrecedence ==
    DispatchDone =>
        \A X \in KeySet(last.nextState) :
            actions[X] # "none" =>
                /\ HasKey(last.changed, X)
                /\ ObjGet(last.changed, X) = ObjGet(Returned(X), X)
                /\ \A K \in KeySet(Returned(X)) :
                      /\ HasKey(last.changed, K)
                      /\ NormalDispatch =>
                            \A l \in Listeners :
                                Registered(K, l) => InvokedCount(K, l) >= 1

C6_Witness ==
    /\ NormalDispatch
    /\ last.optionsH.check
    /\ HasKey(last.nextState, "count")
    /\ IncomingValue("count") = last.pre.state["count"]
    /\ HasKey(last.changed, "count")
    /\ ObjGet(last.changed, "count") = last.pre.state["count"]
    /\ \E l \in Listeners : Registered("count", l) /\ InvokedCount("count", l) >= 1

\* C7: when the action function of a dispatched key X returns a field Z that is not
\* a key of the dispatched partial state, Z -> the returned value is in the
\* changed-set, the state holds it after the dispatch, and in normal mode the
\* listeners of Z are invoked as well as those of X.
C7_TransformRipple ==
    DispatchDone =>
        \A X \in KeySet(last.nextState) :
            actions[X] # "none" =>
                \A Z \in KeySet(Returned(X)) \ KeySet(last.nextState) :
                    /\ HasKey(last.changed, Z)
                    /\ ObjGet(last.changed, Z) = ObjGet(Returned(X), Z)
                    /\ state[Z] = ObjGet(Returned(X), Z)
                    /\ NormalDispatch =>
                          \A l \in Listeners :
                              /\ Registered(Z, l) => InvokedCount(Z, l) >= 1
                              /\ Registered(X, l) => InvokedCount(X, l) >= 1

C7_Witness ==
    /\ NormalDispatch
    /\ last.nextState = <<<<"count", MaxVal>>>>
    /\ last.changed = <<<<"count", MaxVal>>, <<"name", state["name"]>>>>
    /\ state["count"] = MaxVal
    /\ state["name"] # last.pre.state["name"]
    /\ \E l \in Listeners :
          /\ Registered("count", l) /\ Registered("name", l)
          /\ InvokedCount("count", l) = 1
          /\ InvokedCount("name", l) = 1

\* C8: every dispatch, whatever its outcome, increments the batch counter by
\* exactly one before its hook and its action functions run (they all see the new
\* number, which is the number the call is given); no other operation changes the
\* counter.
C8_BatchNumbers ==
    IF last.op = "dispatch"
    THEN /\ dispatchBatch = last.pre.dispatchBatch + 1
         /\ last.batch = last.pre.dispatchBatch + 1
         /\ \A i \in 1..Len(log) : log[i].db = last.pre.dispatchBatch + 1
         /\ \A i \in EventsOf("beforeDispatch") : log[i].n = last.pre.dispatchBatch + 1
    ELSE dispatchBatch = last.pre.dispatchBatch

C8_Witness ==
    /\ last.op = "dispatch"
    /\ last.vetoed
    /\ last.pre.dispatchBatch = 1
    /\ dispatchBatch = 2
    /\ \E i \in EventsOf("beforeDispatch") : log[i].n = 2

\* every key of the pending-options map is an allocated batch number, and a key the
\* last call added is the batch number of that call, a dispatch that completed with
\* takeOverDispatch true and was not vetoed
EntriesFromHandOff ==
    \A n \in DOMAIN dispatchBatchOptionsMap :
        /\ n \in 1..dispatchBatch
        /\ n \notin DOMAIN PreMap => (HandOffDispatch /\ n = last.batch)

\* C9 (as stated): every key of the pending-options map is the batch number of a
\* dispatch that completed with takeOverDispatch true, was not vetoed and has not
\* yet been notified: so no call of executeListeners for batch n leaves n in the map.
C9_PendingMapOriginal ==
    /\ EntriesFromHandOff
    /\ last.op = "executeListeners" => last.batch \notin DOMAIN dispatchBatchOptionsMap

\* C9 (amended): every key of the pending-options map is the batch number of a
\* dispatch that completed with takeOverDispatch true, was not vetoed and has not
\* yet been notified by an executeListeners call made without options; a dispatch
\* that runs with takeOverDispatch false adds no entry.
C9_PendingMap ==
    /\ EntriesFromHandOff
    /\ OptionLessNotify => last.batch \notin DOMAIN dispatchBatchOptionsMap
    /\ (last.op = "dispatch" /\ ~last.takeOver) =>
          DOMAIN dispatchBatchOptionsMap \subseteq DOMAIN PreMap

C9_Witness ==
    /\ OptionLessNotify
    /\ last.batch \in DOMAIN PreMap
    /\ last.batch \notin DOMAIN dispatchBatchOptionsMap
    /\ DOMAIN dispatchBatchOptionsMap # {}
    /\ ~takeOverDispatch

\* C10: an executeListeners call without options for a batch that has no entry in
\* the pending-options map emits one warning, invokes no onChanged, invokes every
\* listener registered on an own key of the given changed-set (once per key) and no
\* other, and (if afterDispatch is registered) ends by calling afterDispatch with
\* the changed-set.
C10_MissingContext ==
    (OptionLessNotify /\ last.batch \notin DOMAIN PreMap) =>
        /\ Cardinality(EventsOf("warn")) = 1
        /\ \A i \in EventsOf("warn") : log[i].n = last.batch
        /\ EventsOf("onChanged") = {}
        /\ \A K \in Fields, l \in Listeners :
              InvokedCount(K, l) =
                  IF Registered(K, l) /\ HasKey(last.changed, K) THEN 1 ELSE 0
        /\ Cardinality(EventsOf("afterDispatch")) = IF afterDispatch THEN 1 ELSE 0
        /\ afterDispatch =>
              /\ log[Len(log)].ev = "afterDispatch"
              /\ log[Len(log)].arg = last.changed
        /\ dispatchBatchOptionsMap = PreMap

C10_Witness ==
    /\ OptionLessNotify
    /\ last.batch <= dispatchBatch
    /\ last.batch \notin DOMAIN PreMap
    /\ EventsOf("warn") # {}
    /\ EventsOf("listener") # {}
    /\ EventsOf("afterDispatch") # {}

\* the kept state object is the one the store holds now
HeldIsLive == held # <<>> /\ held[1].ref = stateRef

\* C11: every dispatch that is not vetoed replaces the stored state by a new object
\* whose content is the shallow merge of the previous state and the changed-set,
\* also when the changed-set is empty; a state object a caller kept before is not
\* modified by the dispatch, and fields outside the changed-set keep their values.
C11_StateReplacement ==
    DispatchDone =>
        /\ stateRef > last.pre.stateRef
        /\ state = Spread(last.pre.state, last.changed)
        /\ \A f \in Fields \ KeySet(last.changed) : state[f] = last.pre.state[f]
        /\ held = last.held
        /\ ~HeldIsLive

C11_Witness ==
    /\ DispatchDone
    /\ last.changed = <<>>
    /\ stateRef = last.pre.stateRef + 1
    /\ held # <<>>
    /\ held[1].ref = last.pre.stateRef
    /\ held[1].val = state

\* C13: staticUpdateState(partial) changes only the values of the given fields, in
\* the current state object (same identity, so a kept reference to that object
\* shows the new values); it calls no action function, listener, onChanged,
\* beforeDispatch or afterDispatch and leaves the batch counter, the
\* pending-options map and the subscriber registry as they are.
C13_UnsynchronizedWrite ==
    /\ HeldIsLive => held[1].val = state
    /\ last.op = "staticUpdateState" =>
          /\ state = Spread(last.pre.state, last.nextState)
          /\ \A f \in Fields \ KeySet(last.nextState) : state[f] = last.pre.state[f]
          /\ stateRef = last.pre.stateRef
          /\ log = <<>>
          /\ dispatchBatch = last.pre.dispatchBatch
          /\ dispatchBatchOptionsMap = PreMap
          /\ listeners = last.pre.listeners
          /\ (last.held # <<>> /\ last.held[1].ref = stateRef) =>
                (held # <<>> /\ held[1].ref = stateRef /\ held[1].val = state)

C13_Witness ==
    /\ last.op = "staticUpdateState"
    /\ HeldIsLive
    /\ last.held[1].val # state
    /\ beforeDispatch /\ afterDispatch
    /\ DOMAIN dispatchBatchOptionsMap # {}
    /\ \E K \in KeySet(last.nextState), l \in Listeners :
          Registered(K, l) /\ state[K] # last.pre.state[K]

\* the last call ran a notify pass
NotifyPass == NormalDispatch \/ last.op = "executeListeners"

\* the onChanged the pass of the last call resolved (0 is none)
ResolvedCallback ==
    IF last.op = "dispatch" \/ last.explicit THEN last.optionsH.onChanged
    ELSE IF last.batch \in DOMAIN PreMap THEN PreMap[last.batch].onChanged
    ELSE 0

\* C12: in every notify pass (inline in a normal dispatch or called by the owner)
\* the new state is in place when the first listener runs (a listener of K reads
\* the changed-set's value of K), every listener runs before onChanged, onChanged
\* (if resolved) runs exactly once with the store's current state, and
\* afterDispatch (if registered) runs exactly once, last, with the changed-set,
\* whether or not any field had listeners.
C12_NotificationOrder ==
    NotifyPass =>
        /\ \A i \in NotifyEvents : log[i].st = state
        /\ NormalDispatch =>
              \A i \in EventsOf("listener") :
                  log[i].st[log[i].key] = ObjGet(last.changed, log[i].key)
        /\ \A i \in EventsOf("listener"), j \in EventsOf("onChanged") : i < j
        /\ Cardinality(EventsOf("onChanged")) = IF ResolvedCallback # 0 THEN 1 ELSE 0
        /\ \A j \in EventsOf("onChanged") : log[j].n = ResolvedCallback
        /\ Cardinality(EventsOf("afterDispatch")) = IF afterDispatch THEN 1 ELSE 0
        /\ \A j \in EventsOf("afterDispatch") :
              /\ j = Len(log)
              /\ log[j].arg = last.changed

C12_Witness ==
    /\ NormalDispatch
    /\ state # last.pre.state
    /\ Len(log) >= 4
    /\ log[Len(log)].ev = "afterDispatch"
    /\ log[Len(log) - 1].ev = "onChanged"
    /\ log[Len(log) - 2].ev = "listener"
    /\ log[Len(log) - 3].ev = "listener"

\* the last call was a call of a kept closure that had been called before
SecondCall ==
    /\ last.op = "unsubscribe"
    /\ last.handle # 0
    /\ handles[last.handle].calls >= 2

\* C14 (as stated): the second call of a closure returned by subscribe(l, K) changes
\* no subscriber set, whatever happened between the two calls.
C14_IdempotentUnsubscribe ==
    SecondCall => listeners = last.pre.listeners

\* the closures kept for (K, l) that were not called yet
FreshHandles(K, l) ==
    {i \in DOMAIN handles :
        handles[i].key = K /\ handles[i].l = l /\ handles[i].calls = 0}

\* C15: subscribing a listener that is registered on K already leaves the registry
\* as it is, K's set never holds a listener twice, a dispatch whose changed-set has
\* K invokes a registered listener of K exactly once, and a call of any closure
\* returned for (K, l) leaves l unregistered on K.
C15_IdempotentRegistration ==
    /\ (last.op = "subscribe" /\ listeners # last.pre.listeners) =>
          \E K \in Fields, l \in Listeners :
              /\ ~SetHas(ListenersGet(last.pre.listeners, K), l)
              /\ ListenersGet(listeners, K) = Append(ListenersGet(last.pre.listeners, K), l)
    /\ \A K \in Fields, l \in Listeners :
          Cardinality({i \in 1..Len(ListenersGet(listeners, K)) :
                          ListenersGet(listeners, K)[i] = l}) <= 1
    /\ NormalDispatch =>
          \A K \in Fields, l \in Listeners :
              InvokedCount(K, l) =
                  IF Registered(K, l) /\ HasKey(last.changed, K) THEN 1 ELSE 0
    /\ (last.op = "unsubscribe" /\ last.handle # 0) =>
          ~Registered(handles[last.handle].key, handles[last.handle].l)

C15_Witness ==
    /\ NormalDispatch
    /\ \E K \in Fields, l \in Listeners :
          /\ Cardinality(FreshHandles(K, l)) = 2
          /\ HasKey(last.changed, K)
          /\ InvokedCount(K, l) = 1

\* C16 (as stated): the batch number every non-vetoed dispatch uses at its routing
\* step is the one it was given at line 120 (and passed to beforeDispatch), also
\* when beforeDispatch dispatches before the outer call gets there, and the options
\* stored under a batch number are those of the dispatch with that number.
C16_RoutingBatch ==
    /\ \A i \in EventsOf("route") : log[i].db = log[i].n
    /\ \A b \in DOMAIN dispatchBatchOptionsMap :
          dispatchBatchOptionsMap[b].onChanged \in {0, b}

\* the last onChanged call of the last operation: the one of its own notify pass
\* when that pass resolved a callback
LastOnChanged == log[CHOOSE j \in EventsOf("onChanged") :
                        \A i \in EventsOf("onChanged") : i <= j]

\* the state object the notify pass of the last call started with
PassRef == IF last.op = "dispatch" THEN last.pre.stateRef + 1 ELSE last.pre.stateRef

\* in the pass of the last call a listener dispatched, and that dispatch (the only
\* nested one) was not vetoed
ListenerDispatched ==
    /\ NotifyPass
    /\ last.inner.hook = <<>>
    /\ last.inner.listener # <<>>
    /\ EventsOf("listener") # {}
    /\ ~beforeDispatch \/ last.inner.listener[1].res.bool

\* C20: onChanged gets the state the store holds when the notify pass calls it:
\* an owner's executeListeners(b1, ...) passes the state as it is now, with what
\* dispatches later than b1 changed, and when a listener of the pass dispatches,
\* the onChanged of the pass gets the object that nested dispatch produced.
C20_OnChangedState ==
    (NotifyPass /\ ResolvedCallback # 0) =>
        /\ EventsOf("onChanged") # {}
        /\ LastOnChanged.n = ResolvedCallback
        /\ LastOnChanged.st = state
        /\ LastOnChanged.ref = stateRef
        /\ (last.op = "executeListeners" /\ last.inner.listener = <<>>) =>
              /\ LastOnChanged.st = last.pre.state
              /\ LastOnChanged.ref = last.pre.stateRef
        /\ ListenerDispatched =>
              /\ LastOnChanged.ref = PassRef + 1
              /\ \A k \in KeySet(last.inner.listener[1].nextState) :
                    LastOnChanged.st[k] = ObjGet(last.inner.listener[1].nextState, k)

C20_Witness ==
    /\ OptionLessNotify
    /\ last.inner = NoInner
    /\ last.batch = 1
    /\ dispatchBatch = 2
    /\ 1 \in DOMAIN PreMap
    /\ PreMap[1].onChanged = 1
    /\ held # <<>>
    /\ held[1].ref = 1
    /\ EventsOf("onChanged") # {}
    /\ LastOnChanged.n = 1
    /\ LastOnChanged.ref = 2
    /\ LastOnChanged.st # held[1].val

\* a listener of a normal dispatch dispatches: the outer onChanged gets the nested state
NestedPassReached ==
    /\ NormalDispatch
    /\ ListenerDispatched
    /\ last.optionsH.onChanged # 0
    /\ LastOnChanged.n = last.optionsH.onChanged
    /\ LastOnChanged.st # Spread(last.pre.state, last.changed)

\* C17: when beforeDispatch returns an object with a key X of the dispatched partial
\* state, the resolution of X uses the hook's value: an action function of X is
\* called with it, a check compares it, and without action function and with check
\* false X -> that value is in the changed-set and in the state (in a dispatch none
\* of whose keys has an action function); when the hook returns true the values
\* passed to dispatch are used.
C17_HookRewrite ==
    (DispatchDone /\ last.hook \in {"object", "true"}) =>
        \A X \in KeySet(last.nextState) :
            LET v == IF last.hook = "object" /\ HasKey(last.hookObj, X)
                     THEN ObjGet(last.hookObj, X)
                     ELSE ObjGet(last.nextState, X)
            IN  /\ \A i \in EventsOf("action") : log[i].key = X => log[i].n = v
                /\ (NoActionKeys /\ ~last.optionsH.check) =>
                      /\ HasKey(last.changed, X)
                      /\ ObjGet(last.changed, X) = v
                      /\ state[X] = v
                /\ (NoActionKeys /\ last.optionsH.check) =>
                      (HasKey(last.changed, X) <=> v # last.pre.state[X])

C17_Witness ==
    /\ DispatchDone
    /\ last.hook = "object"
    /\ ~last.optionsH.check
    /\ \E v1, v2 \in Values :
          /\ v1 # v2
          /\ last.nextState = <<<<"name", v1>>>>
          /\ last.hookObj = <<<<"name", v2>>>>
          /\ last.changed = <<<<"name", v2>>>>
          /\ state["name"] = v2
          /\ last.pre.state["name"] = v1

\* what the i-th key of the last dispatch's input contributes to the changed-set,
\* computed from the state before the dispatch
Contribution(i) ==
    LET X == last.nextState[i][1]
    IN  IF actions[X] # "none" THEN Returned(X)
        ELSE IF last.optionsH.check /\ IncomingValue(X) = last.pre.state[X] THEN <<>>
        ELSE <<<<X, IncomingValue(X)>>>>

\* the positions of the input keys that contribute a value for field F
Contributors(F) == {i \in 1..Len(last.nextState) : HasKey(Contribution(i), F)}

\* C18: in a dispatch every action function is called with the state as it was
\* before the dispatch and every check compares with that state, and a field for
\* which several input keys contribute a value gets the value of the contributing
\* key that is last in the input's key order, in the changed-set and in the state.
C18_PreStateAndLastWins ==
    DispatchDone =>
        /\ \A i \in EventsOf("action") :
              /\ log[i].st = last.pre.state
              /\ log[i].arg = ApplyAction(actions[log[i].key], log[i].key, log[i].n,
                                          last.pre.state)
        /\ \A F \in Fields :
              IF Contributors(F) = {}
              THEN ~HasKey(last.changed, F) /\ state[F] = last.pre.state[F]
              ELSE LET i == CHOOSE j \in Contributors(F) :
                                \A k \in Contributors(F) : k <= j
                   IN  /\ HasKey(last.changed, F)
                       /\ ObjGet(last.changed, F) = ObjGet(Contribution(i), F)
                       /\ state[F] = ObjGet(Contribution(i), F)

C18_Witness ==
    /\ DispatchDone
    /\ \A f \in Fields : actions[f] # "none"
    /\ last.pre.state # [f \in Fields |-> 0]
    /\ Len(last.nextState) = 2
    /\ \E F \in Fields :
          /\ Contributors(F) = {1, 2}
          /\ ObjGet(Contribution(1), F) # ObjGet(Contribution(2), F)
          /\ ObjGet(last.changed, F) = ObjGet(Contribution(2), F)
          /\ state[F] = ObjGet(Contribution(2), F)

\* one key contributes through its action function, a later one directly
DirectWinsReached ==
    /\ DispatchDone
    /\ last.hook = "none"
    /\ actions = ActionConfig
    /\ last.nextState = <<<<"count", 0>>, <<"name", 1>>>>
    /\ Contributors("name") = {1, 2}
    /\ ObjGet(Contribution(1), "name") = 0
    /\ state["name"] = 1

\* C19: an entry of the pending-options map is removed by a call only when the call
\* is executeListeners(n, ...) without options for the entry's batch n, and that
\* call always removes it; no call replaces the options of an existing entry.  So
\* executeListeners with explicit options, dispatch (vetoed or not), subscribe,
\* unsubscribe and staticUpdateState leave every existing entry as it is.
C19_Consumption ==
    \A n \in DOMAIN PreMap :
        /\ n \notin DOMAIN dispatchBatchOptionsMap <=> (OptionLessNotify /\ last.batch = n)
        /\ n \in DOMAIN dispatchBatchOptionsMap =>
              dispatchBatchOptionsMap[n] = PreMap[n]

C19_Witness ==
    /\ last.op = "executeListeners"
    /\ last.explicit
    /\ last.batch \in DOMAIN PreMap
    /\ last.batch \in DOMAIN dispatchBatchOptionsMap
    /\ PreMap[last.batch].onChanged # last.optionsH.onChanged
    /\ EventsOf("listener") # {}
    /\ \E i \in EventsOf("onChanged") : log[i].n = last.optionsH.onChanged

====
